---- MODULE Spec2Model ----
(***************************************************************************)
(* Model of the statezero-vue-bolt-starter scaffold:                       *)
(*   - model-registry.js   the placeholder getModelClass                   *)
(*   - statezero.config.js the static configuration object                 *)
(*   - src/main.ts         the bootstrap sequence                          *)
(*   - README.md and the LLM implementation guide: the handlers of the     *)
(*     two "Complete Vue Component Pattern" components                     *)
(* JavaScript strings whose content matters (model names, the error        *)
(* message) are sequences of one-character strings.                        *)
(***************************************************************************)
EXTENDS Integers, Sequences, FiniteSets

VARIABLES
    pc,               \* index into Statements of the next statement of main.ts
    active,           \* TRUE while the call of statement pc has not come back
    crashed,          \* TRUE once an exception left main.ts uncaught
    trace,            \* the call / return / throw events of the bootstrap, in order
    config,           \* the object statezero.config.js exports as default
    handedConfig,     \* what configInstance.setConfig was given (<<>> before)
    registeredGetter, \* what configInstance.registerModelGetter was given (<<>> before)
    adapters,         \* what setAdapters was given (<<>> before)
    mounted,          \* TRUE once mount('#app') has returned
    history,          \* every invocation of the registry function: how it was
                      \* made, its argument, whether the module body of main.ts
                      \* had ended by then, and its outcome
    component,        \* which documented component is set up: "none", "guide"
                      \* (the implementation guide) or "readme" (README.md)
    newTodo,          \* the value of the ref behind the add form
    submissions,      \* every run of addTodo: the form it saw, the create it issued
                      \* (<<>> when none), how the create ended, what the run did
    currentPage,      \* the value of the ref currentPage
    lastPageOp,       \* the last pagination handler run and the page it started at
    prompts,          \* every confirm() shown by deleteTodo, with the answer
    deletes,          \* every todo.delete() issued, with how it ended
    reports           \* alert() and console.error() output, in order

bootVars == <<pc, active, crashed, trace, config, handedConfig, registeredGetter,
              adapters, mounted, history>>

docsVars == <<component, newTodo, submissions, currentPage, lastPageOp, prompts,
              deletes, reports>>

vars == <<pc, active, crashed, trace, config, handedConfig, registeredGetter,
          adapters, mounted, history, component, newTodo, submissions,
          currentPage, lastPageOp, prompts, deletes, reports>>

(* ------------------------------ bounds -------------------------------- *)

MaxNameLen == 2
MaxCalls == 2
MaxSubmits == 2
MaxPage == 3
MaxPrompts == 2

(* ------------------------- model-registry.js --------------------------- *)

Alphabet == {"T", "d"}

Strings == UNION {[1..n -> Alphabet] : n \in 0..MaxNameLen}

\* An argument of getModelClass: a string, or undefined when it is missing.
Undefined == [tag |-> "undefined", chars |-> <<>>]
Str(s) == [tag |-> "string", chars |-> s]
ModelNameArgs == {Str(s) : s \in Strings} \cup {Undefined}

\* ToString as a template literal applies it to ${...}.
ToString(v) ==
    IF v.tag = "undefined"
    THEN <<"u", "n", "d", "e", "f", "i", "n", "e", "d">>
    ELSE v.chars

MessagePrefix ==
    <<
       "M", "o", "d", "e", "l", " ", "r", "e", "g", "i", "s", "t", "r", "y", " ", "n",
       "o", "t", " ", "i", "n", "i", "t", "i", "a", "l", "i", "z", "e", "d", ".", " ",
       "P", "l", "e", "a", "s", "e", " ", "r", "u", "n", " ", "y", "o", "u", "r", " ",
       "S", "t", "a", "t", "e", "Z", "e", "r", "o", " ", "m", "o", "d", "e", "l", " ",
       "s", "y", "n", "c", " ", "c", "o", "m", "m", "a", "n", "d", " ", "t", "o", " ",
       "g", "e", "n", "e", "r", "a", "t", "e", " ", "t", "h", "e", " ", "m", "o", "d",
       "e", "l", " ", "r", "e", "g", "i", "s", "t", "r", "y", ".", " ", "A", "t", "t",
       "e", "m", "p", "t", "e", "d", " ", "t", "o", " ", "l", "o", "a", "d", " ", "m",
       "o", "d", "e", "l", ":", " "
    >>

Thrown(type, msg) == [kind |-> "throw", error |-> type, message |-> msg]
Returned == [kind |-> "return", error |-> "", message |-> <<>>]

\* Variants of getModelClass: one that gives up quietly on a falsy name, one
\* whose message does not carry the name, one that fails only the first time.
getModelClassFalsyReturns(modelName) ==
    IF ToString(modelName) = <<>> \/ modelName.tag = "undefined"
    THEN Returned
    ELSE Thrown("Error", MessagePrefix \o ToString(modelName))

getModelClassStaticMessage(modelName) ==
    Thrown("Error", MessagePrefix)

getModelClassFailsOnce(modelName) ==
    IF Len(history) >= 1
    THEN Returned
    ELSE Thrown("Error", MessagePrefix \o ToString(modelName))

getModelClass(modelName) ==
    Thrown("Error", MessagePrefix \o ToString(modelName))

\* Calling a value: the imported registry function runs its body; a value that
\* is no function cannot be called (TypeError).
CallFunction(f, arg) ==
    IF f = "getModelClass" THEN getModelClass(arg) ELSE Thrown("TypeError", <<>>)

(* ------------------------ statezero.config.js -------------------------- *)

Null == [null |-> TRUE]

BASE_URL == "http://127.0.0.1:8000"

\* Variant of the configuration without TLS enforcement.
DefaultExportPlaintext ==
    [backendConfigs |->
      [default |->
        [API_URL |-> BASE_URL \o "/statezero",
         GENERATED_TYPES_DIR |-> "./src/models/",
         fileRootURL |-> BASE_URL,
         fileUploadMode |-> "server",
         BACKEND_TZ |-> "UTC",
         events |->
           [type |-> "pusher",
            pusher |->
              [clientOptions |->
                [appKey |-> Null,
                 cluster |-> Null,
                 forceTLS |-> FALSE,
                 authEndpoint |-> BASE_URL \o "/statezero/events/auth/"]]]]]]

\* Variant of the configuration whose auth endpoint is written against another
\* origin than BASE_URL.
DefaultExportOtherOrigin ==
    [backendConfigs |->
      [default |->
        [API_URL |-> BASE_URL \o "/statezero",
         GENERATED_TYPES_DIR |-> "./src/models/",
         fileRootURL |-> BASE_URL,
         fileUploadMode |-> "server",
         BACKEND_TZ |-> "UTC",
         events |->
           [type |-> "pusher",
            pusher |->
              [clientOptions |->
                [appKey |-> Null,
                 cluster |-> Null,
                 forceTLS |-> TRUE,
                 authEndpoint |-> "http://localhost:8000/statezero/events/auth/"]]]]]]

DefaultExport ==
    [backendConfigs |->
      [default |->
        [API_URL |-> BASE_URL \o "/statezero",
         GENERATED_TYPES_DIR |-> "./src/models/",
         fileRootURL |-> BASE_URL,
         fileUploadMode |-> "server",
         BACKEND_TZ |-> "UTC",
         events |->
           [type |-> "pusher",
            pusher |->
              [clientOptions |->
                [appKey |-> Null,
                 cluster |-> Null,
                 forceTLS |-> TRUE,
                 authEndpoint |-> BASE_URL \o "/statezero/events/auth/"]]]]]]

(* ----------------------------- src/main.ts ----------------------------- *)

\* Variants of the statement list: the UI mounted before the sync manager is
\* started, the event handler started twice, a class registered as the model
\* getter, the event handler started before the adaptors are selected.
StatementsMountEarly ==
    << [fn |-> "configInstance.setConfig", args |-> <<"config">>],
       [fn |-> "configInstance.registerModelGetter", args |-> <<"getModelClass">>],
       [fn |-> "setAdapters",
        args |-> <<"ModelAdaptor", "QuerySetAdaptor", "MetricAdaptor">>],
       [fn |-> "initEventHandler", args |-> <<>>],
       [fn |-> "createApp", args |-> <<"App">>],
       [fn |-> "mount", args |-> <<"#app">>],
       [fn |-> "syncManager.initialize", args |-> <<>>] >>

StatementsRepeated ==
    << [fn |-> "configInstance.setConfig", args |-> <<"config">>],
       [fn |-> "configInstance.registerModelGetter", args |-> <<"getModelClass">>],
       [fn |-> "setAdapters",
        args |-> <<"ModelAdaptor", "QuerySetAdaptor", "MetricAdaptor">>],
       [fn |-> "initEventHandler", args |-> <<>>],
       [fn |-> "initEventHandler", args |-> <<>>],
       [fn |-> "syncManager.initialize", args |-> <<>>],
       [fn |-> "createApp", args |-> <<"App">>],
       [fn |-> "mount", args |-> <<"#app">>] >>

StatementsWrongGetter ==
    << [fn |-> "configInstance.setConfig", args |-> <<"config">>],
       [fn |-> "configInstance.registerModelGetter", args |-> <<"ModelAdaptor">>],
       [fn |-> "setAdapters",
        args |-> <<"ModelAdaptor", "QuerySetAdaptor", "MetricAdaptor">>],
       [fn |-> "initEventHandler", args |-> <<>>],
       [fn |-> "syncManager.initialize", args |-> <<>>],
       [fn |-> "createApp", args |-> <<"App">>],
       [fn |-> "mount", args |-> <<"#app">>] >>

StatementsSingletonsFirst ==
    << [fn |-> "configInstance.setConfig", args |-> <<"config">>],
       [fn |-> "configInstance.registerModelGetter", args |-> <<"getModelClass">>],
       [fn |-> "initEventHandler", args |-> <<>>],
       [fn |-> "syncManager.initialize", args |-> <<>>],
       [fn |-> "setAdapters",
        args |-> <<"ModelAdaptor", "QuerySetAdaptor", "MetricAdaptor">>],
       [fn |-> "createApp", args |-> <<"App">>],
       [fn |-> "mount", args |-> <<"#app">>] >>

\* The statements of the module body, in program order.  Arguments are the
\* import bindings (or literals) written at the call site.
Statements ==
    << [fn |-> "configInstance.setConfig", args |-> <<"config">>],
       [fn |-> "configInstance.registerModelGetter", args |-> <<"getModelClass">>],
       [fn |-> "setAdapters",
        args |-> <<"ModelAdaptor", "QuerySetAdaptor", "MetricAdaptor">>],
       [fn |-> "initEventHandler", args |-> <<>>],
       [fn |-> "syncManager.initialize", args |-> <<>>],
       [fn |-> "createApp", args |-> <<"App">>],
       [fn |-> "mount", args |-> <<"#app">>] >>

\* Variant of Evaluate that hands over an altered copy of the configuration.
EvaluateAlteredCopy(binding) ==
    IF binding = "config"
    THEN [config EXCEPT !.backendConfigs.default.fileUploadMode = "s3"]
    ELSE binding

\* The value of an argument expression: the binding config is the object the
\* configuration module exports; functions, classes and components are known
\* by their binding.
Evaluate(binding) == IF binding = "config" THEN config ELSE binding

Event(ev, fn) == [ev |-> ev, fn |-> fn]

(* --------------- the documented components: their setup() -------------- *)

Components == {"guide", "readme"}

\* The initial value of the ref newTodo: { title: '' } in the guide,
\* { title: '', description: '', category: '', priority: 5 } in README.md.
InitialForm(c) ==
    IF c = "readme"
    THEN [title |-> "", description |-> "", category |-> "", priority |-> 5]
    ELSE [title |-> ""]

\* The refs and logs of a component right after setup(); "none" stands for no
\* documented component being set up.
Setup(c) ==
    /\ component = c
    /\ newTodo = InitialForm(c)
    /\ submissions = <<>>
    /\ currentPage = 1
    /\ lastPageOp = [op |-> "none", before |-> 1]
    /\ prompts = <<>>
    /\ deletes = <<>>
    /\ reports = <<>>

BootInit ==
    /\ pc = 1
    /\ active = FALSE
    /\ crashed = FALSE
    /\ trace = <<>>
    /\ config = DefaultExport
    /\ handedConfig = <<>>
    /\ registeredGetter = <<>>
    /\ adapters = <<>>
    /\ mounted = FALSE
    /\ history = <<>>

Init == BootInit /\ Setup("none")

\* Variant of Call in which the registration statement is written
\* registerModelGetter(getModelClass()): evaluating the argument runs the
\* registry function, whose error leaves the module body before the call.
CallInvokingGetter ==
    /\ ~crashed
    /\ ~active
    /\ pc <= Len(Statements)
    /\ LET stmt == Statements[pc]
           vals == [i \in DOMAIN stmt.args |-> Evaluate(stmt.args[i])]
           eager == stmt.fn = "configInstance.registerModelGetter"
       IN  /\ active' = ~eager
           /\ crashed' = eager
           /\ trace' = IF eager THEN trace ELSE Append(trace, Event("call", stmt.fn))
           /\ history' =
                IF eager
                THEN Append(history,
                            [via |-> "direct", name |-> Undefined, ended |-> FALSE,
                             outcome |-> getModelClass(Undefined)])
                ELSE history
           /\ handedConfig' =
                IF stmt.fn = "configInstance.setConfig" THEN <<vals[1]>> ELSE handedConfig
           /\ adapters' = IF stmt.fn = "setAdapters" THEN vals ELSE adapters
    /\ UNCHANGED <<pc, config, registeredGetter, mounted>>
    /\ UNCHANGED docsVars

\* The next statement of main.ts calls into the library, handing over its
\* arguments.
Call ==
    /\ ~crashed
    /\ ~active
    /\ pc <= Len(Statements)
    /\ LET stmt == Statements[pc]
           vals == [i \in DOMAIN stmt.args |-> Evaluate(stmt.args[i])]
       IN  /\ active' = TRUE
           /\ trace' = Append(trace, Event("call", stmt.fn))
           /\ handedConfig' =
                IF stmt.fn = "configInstance.setConfig" THEN <<vals[1]>> ELSE handedConfig
           /\ registeredGetter' =
                IF stmt.fn = "configInstance.registerModelGetter"
                THEN <<vals[1]>> ELSE registeredGetter
           /\ adapters' = IF stmt.fn = "setAdapters" THEN vals ELSE adapters
    /\ UNCHANGED <<pc, crashed, config, mounted, history>>
    /\ UNCHANGED docsVars

\* The call comes back normally; control moves to the next statement.
Return ==
    /\ active
    /\ active' = FALSE
    /\ pc' = pc + 1
    /\ trace' = Append(trace, Event("return", Statements[pc].fn))
    /\ mounted' = (mounted \/ Statements[pc].fn = "mount")
    /\ UNCHANGED <<crashed, config, handedConfig, registeredGetter, adapters, history>>
    /\ UNCHANGED docsVars

\* Variant of Throw in which the exception is swallowed and the module body
\* goes on with the next statement.
ThrowSwallowed ==
    /\ active
    /\ active' = FALSE
    /\ pc' = pc + 1
    /\ trace' = Append(trace, Event("throw", Statements[pc].fn))
    /\ UNCHANGED <<crashed, config, handedConfig, registeredGetter, adapters,
                   mounted, history>>
    /\ UNCHANGED docsVars

\* The call throws.  main.ts has no try/catch, so the exception leaves the
\* module body and no later statement runs.
Throw ==
    /\ active
    /\ active' = FALSE
    /\ crashed' = TRUE
    /\ trace' = Append(trace, Event("throw", Statements[pc].fn))
    /\ UNCHANGED <<pc, config, handedConfig, registeredGetter, adapters, mounted, history>>
    /\ UNCHANGED docsVars

\* A direct call of the exported registry function.
InvokeGetModelClass(modelName) ==
    /\ Len(history) < MaxCalls
    /\ history' = Append(history,
                         [via |-> "direct", name |-> modelName,
                          ended |-> (crashed \/ pc > Len(Statements)),
                          outcome |-> getModelClass(modelName)])
    /\ UNCHANGED <<pc, active, crashed, trace, config, handedConfig,
                   registeredGetter, adapters, mounted>>
    /\ UNCHANGED docsVars

\* The library resolves a model name through the getter it was given.  It can
\* do so inside any library call made after the registration and at any time
\* after the module body has ended.
ResolveModel(modelName) ==
    /\ registeredGetter # <<>>
    /\ active \/ crashed \/ pc > Len(Statements)
    /\ Len(history) < MaxCalls
    /\ history' = Append(history,
                         [via |-> "getter", name |-> modelName,
                          ended |-> (crashed \/ pc > Len(Statements)),
                          outcome |-> CallFunction(registeredGetter[1], modelName)])
    /\ UNCHANGED <<pc, active, crashed, trace, config, handedConfig,
                   registeredGetter, adapters, mounted>>
    /\ UNCHANGED docsVars

Next ==
    \/ Call
    \/ Return
    \/ Throw
    \/ \E modelName \in ModelNameArgs : InvokeGetModelClass(modelName)
    \/ \E modelName \in ModelNameArgs : ResolveModel(modelName)

Spec == Init /\ [][Next]_vars

(* ----------------- the documented components: addTodo ------------------ *)

InitDocs == BootInit /\ \E c \in Components : Setup(c)

Titles == {"", "Buy milk"}

\* What the user can put into the add form through its v-model inputs.
FormInputs(c) ==
    IF c = "readme"
    THEN [title : Titles, description : {""}, category : {"", "3"}, priority : {5, 8}]
    ELSE [title : Titles]

\* The user edits the add form.
EditForm(f) ==
    /\ component \in Components
    /\ f \in FormInputs(component)
    /\ f # newTodo
    /\ newTodo' = f
    /\ UNCHANGED <<component, submissions, currentPage, lastPageOp, prompts,
                   deletes, reports>>
    /\ UNCHANGED bootVars

\* Whether the try block of addTodo declares its own newTodo.  README.md does
\* (const newTodo = await Todo.objects.create(...)); the guide does not.
NewTodoDeclaredInTry(c) == c = "readme"

\* The object literal passed to Todo.objects.create, built from the form
\* ("null" stands for null).
Payload(c, form) ==
    IF c = "readme"
    THEN [title |-> form.title,
          description |-> form.description,
          category |-> IF form.category = "" THEN "null" ELSE form.category,
          priority |-> form.priority,
          completed |-> FALSE]
    ELSE [title |-> form.title, completed |-> FALSE]

Evaluated(v) == [kind |-> "value", value |-> v]

\* Evaluating the argument of Todo.objects.create.  The identifier newTodo in
\* it refers to the innermost declaration: where the try block declares
\* newTodo, that binding is still uninitialised while its own initialiser is
\* being evaluated, and reading it throws a ReferenceError.
CreateArgument(c, form) ==
    IF NewTodoDeclaredInTry(c)
    THEN Thrown("ReferenceError", <<>>)
    ELSE Evaluated(Payload(c, form))

Report(channel, text) == [channel |-> channel, text |-> text]

\* The catch block of addTodo.
CatchReports(c) ==
    IF c = "readme"
    THEN << Report("console.error", "Failed to create todo:"),
            Report("alert", "Failed to create todo. Please try again.") >>
    ELSE << Report("alert", "Failed to create todo") >>

\* addTodo up to its await: the form is submitted (the title input is
\* required), the argument is evaluated and the create is issued; an
\* exception on the way goes to the catch block.
AddTodo ==
    /\ component \in Components
    /\ Len(submissions) < MaxSubmits
    /\ newTodo.title # ""
    /\ LET arg == CreateArgument(component, newTodo)
       IN  IF arg.kind = "throw"
           THEN /\ submissions' =
                     Append(submissions,
                            [form |-> newTodo, created |-> <<>>, state |-> "threw",
                             reset |-> FALSE, alerted |-> TRUE])
                /\ reports' = reports \o CatchReports(component)
           ELSE /\ submissions' =
                     Append(submissions,
                            [form |-> newTodo, created |-> <<arg.value>>,
                             state |-> "awaiting",
                             reset |-> FALSE, alerted |-> FALSE])
                /\ reports' = reports
    /\ UNCHANGED <<component, newTodo, currentPage, lastPageOp, prompts, deletes>>
    /\ UNCHANGED bootVars

\* The statement after the await.  In the guide newTodo is the ref and its
\* title is cleared; in README.md newTodo is the block's constant (the created
\* todo), so the assignment to newTodo.value leaves the form's ref alone.
FormAfterCreate(c, form) ==
    IF NewTodoDeclaredInTry(c) THEN form ELSE [form EXCEPT !.title = ""]

\* The create of submission i is confirmed and addTodo resumes after its await.
CreateConfirmed(i) ==
    /\ i \in DOMAIN submissions
    /\ submissions[i].state = "awaiting"
    /\ newTodo' = FormAfterCreate(component, newTodo)
    /\ submissions' =
          [submissions EXCEPT ![i].state = "confirmed",
                              ![i].reset = ~NewTodoDeclaredInTry(component)]
    /\ UNCHANGED <<component, currentPage, lastPageOp, prompts, deletes, reports>>
    /\ UNCHANGED bootVars

\* The create of submission i is rejected and addTodo resumes in its catch block.
CreateFailed(i) ==
    /\ i \in DOMAIN submissions
    /\ submissions[i].state = "awaiting"
    /\ submissions' =
          [submissions EXCEPT ![i].state = "failed", ![i].alerted = TRUE]
    /\ reports' = reports \o CatchReports(component)
    /\ UNCHANGED <<component, newTodo, currentPage, lastPageOp, prompts, deletes>>
    /\ UNCHANGED bootVars

NextAddTodo ==
    \/ \E f \in FormInputs(component) : EditForm(f)
    \/ AddTodo
    \/ \E i \in 1..MaxSubmits : CreateConfirmed(i)
    \/ \E i \in 1..MaxSubmits : CreateFailed(i)

SpecAddTodo == InitDocs /\ [][NextAddTodo]_vars

(* ----------- the documented components: pagination, deleteTodo ---------- *)

\* const pageSize = ref(10); nothing assigns to it.
pageSize == 10

\* The offset paginatedTodos passes to fetch.
Offset == (currentPage - 1) * pageSize

\* nextPage of the README.md component (the guide's component has no pages).
NextPage ==
    /\ component = "readme"
    /\ currentPage < MaxPage
    /\ currentPage' = currentPage + 1
    /\ lastPageOp' = [op |-> "nextPage", before |-> currentPage]
    /\ UNCHANGED <<component, newTodo, submissions, prompts, deletes, reports>>
    /\ UNCHANGED bootVars

\* Variant of prevPage without its test of currentPage.
PrevPageUnguarded ==
    /\ component = "readme"
    /\ currentPage' = currentPage - 1
    /\ lastPageOp' = [op |-> "prevPage", before |-> currentPage]
    /\ UNCHANGED <<component, newTodo, submissions, prompts, deletes, reports>>
    /\ UNCHANGED bootVars

\* prevPage of the README.md component.  The handler is modelled on any page:
\* the template only disables the button that calls it on page 1.
PrevPage ==
    /\ component = "readme"
    /\ currentPage' = IF currentPage > 1 THEN currentPage - 1 ELSE currentPage
    /\ lastPageOp' = [op |-> "prevPage", before |-> currentPage]
    /\ UNCHANGED <<component, newTodo, submissions, prompts, deletes, reports>>
    /\ UNCHANGED bootVars

TodoIds == {1, 2}

\* Variant of deleteTodo that goes on to delete whatever confirm() returned.
DeleteTodoUnconfirmed(todo, accepted) ==
    /\ component \in Components
    /\ Len(prompts) < MaxPrompts
    /\ prompts' = Append(prompts, [todo |-> todo, accepted |-> accepted])
    /\ deletes' = Append(deletes, [todo |-> todo, state |-> "awaiting"])
    /\ UNCHANGED <<component, newTodo, submissions, currentPage, lastPageOp, reports>>
    /\ UNCHANGED bootVars

\* deleteTodo up to its await: confirm() is shown; on a refusal the handler
\* returns, otherwise todo.delete() is issued.  The code is the same in the
\* guide's snippet, the guide's component and the README.md component.
DeleteTodo(todo, accepted) ==
    /\ component \in Components
    /\ Len(prompts) < MaxPrompts
    /\ prompts' = Append(prompts, [todo |-> todo, accepted |-> accepted])
    /\ deletes' =
          IF ~accepted
          THEN deletes
          ELSE Append(deletes, [todo |-> todo, state |-> "awaiting"])
    /\ UNCHANGED <<component, newTodo, submissions, currentPage, lastPageOp, reports>>
    /\ UNCHANGED bootVars

\* The delete is confirmed; deleteTodo ends ("UI updates automatically").
DeleteConfirmed(i) ==
    /\ i \in DOMAIN deletes
    /\ deletes[i].state = "awaiting"
    /\ deletes' = [deletes EXCEPT ![i].state = "deleted"]
    /\ UNCHANGED <<component, newTodo, submissions, currentPage, lastPageOp,
                   prompts, reports>>
    /\ UNCHANGED bootVars

\* The delete is rejected.  README.md catches and logs it; in the guide the
\* rejection leaves the handler.
DeleteFailed(i) ==
    /\ i \in DOMAIN deletes
    /\ deletes[i].state = "awaiting"
    /\ deletes' = [deletes EXCEPT ![i].state = "failed"]
    /\ reports' =
          IF component = "readme"
          THEN Append(reports, Report("console.error", "Failed to delete todo:"))
          ELSE reports
    /\ UNCHANGED <<component, newTodo, submissions, currentPage, lastPageOp, prompts>>
    /\ UNCHANGED bootVars

NextTodoList ==
    \/ NextPage
    \/ PrevPage
    \/ \E todo \in TodoIds, accepted \in BOOLEAN : DeleteTodo(todo, accepted)
    \/ \E i \in 1..MaxPrompts : DeleteConfirmed(i)
    \/ \E i \in 1..MaxPrompts : DeleteFailed(i)

SpecTodoList == InitDocs /\ [][NextTodoList]_vars

(* ------------------------------ properties ----------------------------- *)

\* String.prototype.includes on character sequences: part occurs in text at
\* some distance k from the end of text.
Includes(text, part) ==
    \E k \in 0..(Len(text) - Len(part)) :
        SubSeq(text, Len(text) - Len(part) - k + 1, Len(text) - k) = part

StartsWith(text, part) ==
    /\ Len(part) <= Len(text)
    /\ SubSeq(text, 1, Len(part)) = part

InitCalls ==
    {"configInstance.setConfig", "configInstance.registerModelGetter",
     "setAdapters", "initEventHandler", "syncManager.initialize"}

Happened(ev, fn) == \E i \in DOMAIN trace : trace[i] = Event(ev, fn)

\* An event (ev, fn) occurs in the trace before position i.
HappenedBefore(ev, fn, i) == \E j \in 1..(i - 1) : trace[j] = Event(ev, fn)

Count(ev, fn) == Cardinality({i \in DOMAIN trace : trace[i] = Event(ev, fn)})

BootstrapDone == pc > Len(Statements)

\* C1: every direct call of getModelClass, whatever its argument (a string,
\* the empty string, or no argument), raised an Error and returned no value.
C1_AlwaysRaises ==
    \A i \in DOMAIN history :
        history[i].via = "direct" =>
            /\ history[i].outcome.kind = "throw"
            /\ history[i].outcome.kind # "return"
            /\ history[i].outcome.error = "Error"

\* Reached: the function was called without an argument and with the empty string.
C1_Witness ==
    /\ \E i \in DOMAIN history :
          history[i].via = "direct" /\ history[i].name = Undefined
    /\ \E i \in DOMAIN history :
          history[i].via = "direct" /\ history[i].name = Str(<<>>)

\* C2: the message of the error getModelClass raises includes the model name
\* it was called with.
C2_MessageNamesModel ==
    \A i \in DOMAIN history :
        history[i].via = "direct" =>
            /\ history[i].outcome.kind = "throw"
            /\ Includes(history[i].outcome.message, ToString(history[i].name))

\* Reached: the function was called with the two-character name "Td".
C2_Witness ==
    \E i \in DOMAIN history :
        /\ history[i].via = "direct"
        /\ history[i].name = Str(<<"T", "d">>)
        /\ history[i].outcome.kind = "throw"

\* C3: the registry function keeps failing whatever was called before: every
\* invocation in a sequence of invocations raises, and two invocations with
\* the same name raise the same error wherever they stand in the sequence.
C3_FailsAfterAnyHistory ==
    \A i \in DOMAIN history :
        /\ history[i].outcome.kind = "throw"
        /\ \A j \in DOMAIN history :
              history[j].name = history[i].name =>
                  history[j].outcome = history[i].outcome

\* Reached: a second invocation that repeats the name of the first.
C3_Witness ==
    /\ Len(history) >= 2
    /\ history[1].name = history[2].name
    /\ history[2].outcome.kind = "throw"

\* C4: mount is called only after the five initialization calls have
\* returned, and no initialization call is made after it.
C4_MountLast ==
    \A i \in DOMAIN trace :
        trace[i] = Event("call", "mount") =>
            /\ \A fn \in InitCalls : HappenedBefore("return", fn, i)
            /\ \A k \in DOMAIN trace :
                  (k > i /\ trace[k].ev = "call") => trace[k].fn \notin InitCalls

\* Reached: the UI application is mounted.
C4_Witness == mounted /\ Happened("return", "mount")

\* C5: the bootstrap is one synchronous sequence run once: no call is made
\* twice, a call begins only when the call before it has returned, and when
\* the module body has run to its end each of the six calls was made exactly
\* once.
C5_OnceInSequence ==
    /\ \A fn \in InitCalls \cup {"mount"} : Count("call", fn) <= 1
    /\ \A i \in DOMAIN trace :
          (i > 1 /\ trace[i].ev = "call") => trace[i - 1].ev = "return"
    /\ BootstrapDone =>
          \A fn \in InitCalls \cup {"mount"} :
              Count("call", fn) = 1 /\ Count("return", fn) = 1

\* Reached: the module body has run to its end.
C5_Witness == BootstrapDone /\ ~crashed /\ ~active

\* C6: the object handed to setConfig is the default export of
\* statezero.config.js, and that object is never modified.
C6_ConfigVerbatim ==
    /\ config = DefaultExport
    /\ handedConfig # <<>> => handedConfig = <<DefaultExport>>

\* Reached: the configuration was handed over and the bootstrap went on to
\* its end.
C6_Witness == handedConfig # <<>> /\ BootstrapDone

\* C7: the registered getter is getModelClass itself, and every resolution
\* made through it raises the registry-not-initialized Error naming the
\* requested model.
C7_GetterIsPlaceholder ==
    /\ registeredGetter # <<>> => registeredGetter = <<"getModelClass">>
    /\ \A i \in DOMAIN history :
          history[i].via = "getter" =>
              /\ history[i].outcome.kind = "throw"
              /\ history[i].outcome.error = "Error"
              /\ StartsWith(history[i].outcome.message, MessagePrefix)
              /\ Includes(history[i].outcome.message, ToString(history[i].name))

\* Reached: after the bootstrap has ended, a resolution of the name "T"
\* through the getter.
C7_Witness ==
    /\ BootstrapDone
    /\ \E i \in DOMAIN history :
          /\ history[i].via = "getter"
          /\ history[i].ended
          /\ history[i].name = Str(<<"T">>)

\* C8: the default backend selects the pusher transport, its clientOptions
\* carry appKey, cluster, forceTLS and authEndpoint, and forceTLS is true;
\* this is so for the exported object and for the object handed to setConfig.
PusherConfigured(cfg) ==
    LET events == cfg.backendConfigs.default.events
        options == events.pusher.clientOptions
    IN  /\ events.type = "pusher"
        /\ {"appKey", "cluster", "forceTLS", "authEndpoint"} \subseteq DOMAIN options
        /\ options.forceTLS = TRUE

C8_PusherWithTLS ==
    /\ PusherConfigured(config)
    /\ \A i \in DOMAIN handedConfig : PusherConfigured(handedConfig[i])

\* Reached: the library holds the configuration and the event handler, which
\* uses the transport settings, is being started.
C8_Witness ==
    /\ handedConfig # <<>>
    /\ active
    /\ Statements[pc].fn = "initEventHandler"

\* C9: when initEventHandler or syncManager.initialize is called, setConfig,
\* registerModelGetter and setAdapters have returned; and when
\* syncManager.initialize is called, initEventHandler has returned.
C9_ConfiguredBeforeSingletons ==
    \A i \in DOMAIN trace :
        /\ (trace[i].ev = "call"
            /\ trace[i].fn \in {"initEventHandler", "syncManager.initialize"}) =>
                \A fn \in {"configInstance.setConfig",
                           "configInstance.registerModelGetter", "setAdapters"} :
                    HappenedBefore("return", fn, i)
        /\ trace[i] = Event("call", "syncManager.initialize") =>
                HappenedBefore("return", "initEventHandler", i)

\* Reached: the sync manager is being initialized.
C9_Witness == active /\ Statements[pc].fn = "syncManager.initialize"

\* C10: once an initialization call has thrown, nothing more is called and
\* the UI application is not mounted.
C10_ThrowEndsBootstrap ==
    \A i \in DOMAIN trace :
        (trace[i].ev = "throw" /\ trace[i].fn \in InitCalls) =>
            /\ i = Len(trace)
            /\ ~mounted
            /\ ~Happened("call", "mount")

\* Reached: an initialization call threw, and the program lived on long enough
\* for the registry function to be invoked afterwards.
C10_Witness ==
    /\ crashed
    /\ trace # <<>>
    /\ trace[Len(trace)] = Event("throw", "initEventHandler")
    /\ \E i \in DOMAIN history : history[i].ended

NoThrow == \A i \in DOMAIN trace : trace[i].ev # "throw"

\* C11: the bootstrap hands getModelClass over without invoking it: no step
\* of the bootstrap invokes the registry function, the module body ends early
\* only when a library call throws, and while the library calls return the
\* next statement can always run, up to mount.
C11_BootstrapNeverInvokesRegistry ==
    /\ [](crashed => trace # <<>> /\ trace[Len(trace)].ev = "throw")
    /\ []((NoThrow /\ ~active /\ pc <= Len(Statements)) => ENABLED Call)
    /\ []((NoThrow /\ BootstrapDone) => mounted)
    /\ [][(trace' # trace \/ pc' # pc \/ crashed' # crashed) => history' = history]_vars

\* Reached: every library call returned, the UI application is mounted, and
\* the registry function was never invoked.
C11_Witness == NoThrow /\ BootstrapDone /\ mounted /\ history = <<>>

\* C12: the three URLs of the configuration are built from BASE_URL: API_URL is
\* BASE_URL followed by "/statezero", fileRootURL is BASE_URL, and the pusher
\* authEndpoint is API_URL followed by "/events/auth/".
UrlsFromBase(cfg) ==
    LET backend == cfg.backendConfigs.default
    IN  /\ backend.API_URL = BASE_URL \o "/statezero"
        /\ backend.fileRootURL = BASE_URL
        /\ backend.events.pusher.clientOptions.authEndpoint =
              backend.API_URL \o "/events/auth/"

C12_UrlsShareBase ==
    /\ UrlsFromBase(config)
    /\ \A i \in DOMAIN handedConfig : UrlsFromBase(handedConfig[i])

\* Reached: the configuration with its URLs is in the library's hands and the
\* sync manager, which talks to API_URL, is being started.
C12_Witness ==
    /\ handedConfig # <<>>
    /\ active
    /\ Statements[pc].fn = "syncManager.initialize"
    /\ handedConfig[1].backendConfigs.default.API_URL = "http://127.0.0.1:8000/statezero"

\* C13: every run of addTodo issues Todo.objects.create with the values the
\* form held when it was submitted; the form is reset only by a run whose
\* create was confirmed; a run whose create failed leaves the form alone and
\* alerts the user.
C13_AddTodoCreatesThenResets ==
    \A i \in DOMAIN submissions :
        LET run == submissions[i]
        IN  /\ run.created # <<>>
            /\ run.created[1].title = run.form.title
            /\ run.reset => run.state = "confirmed"
            /\ run.state = "failed" => (~run.reset /\ run.alerted)

\* C14: in the README.md component currentPage never goes below 1 whatever
\* nextPage and prevPage calls were made, a prevPage on page 1 leaves the page
\* at 1, and the offset passed to fetch is never negative.
C14_PageAtLeastOne ==
    component = "readme" =>
        /\ currentPage >= 1
        /\ Offset >= 0
        /\ (lastPageOp.op = "prevPage" /\ lastPageOp.before = 1) => currentPage = 1
        /\ (lastPageOp.op = "prevPage" /\ lastPageOp.before > 1) =>
              currentPage = lastPageOp.before - 1

\* Reached: prevPage was run on page 1.
C14_Witness ==
    /\ component = "readme"
    /\ lastPageOp = [op |-> "prevPage", before |-> 1]
    /\ currentPage = 1

AcceptedPrompts == SelectSeq(prompts, LAMBDA p : p.accepted)

\* C15: todo.delete() is issued only for prompts the user accepted, one delete
\* per accepted prompt and for the todo of that prompt; a run of deleteTodo
\* whose prompt is declined changes nothing but the record of the prompt.
C15_DeleteOnlyWhenConfirmed ==
    /\ [](/\ Len(deletes) = Len(AcceptedPrompts)
          /\ \A i \in DOMAIN deletes : deletes[i].todo = AcceptedPrompts[i].todo)
    /\ [][(/\ Len(prompts') = Len(prompts) + 1
           /\ ~prompts'[Len(prompts')].accepted)
          => UNCHANGED <<bootVars, component, newTodo, submissions, currentPage,
                         lastPageOp, deletes, reports>>]_vars

\* Reached: a declined prompt followed by an accepted one, with the one delete
\* of the accepted prompt issued.
C15_Witness ==
    /\ Len(prompts) = 2
    /\ ~prompts[1].accepted
    /\ prompts[2].accepted
    /\ Len(deletes) = 1
    /\ deletes[1].todo = prompts[2].todo

====
